---- MODULE Spec2Model ----
(***************************************************************************)
(* Model of the video-to-mp3 server (server/index.js): the in-memory job   *)
(* store, the upload / status / download handlers, convertToMp3 and its    *)
(* encoder callbacks, the per-job cleanup timer and the periodic sweep.    *)
(*                                                                         *)
(* Node runs one callback at a time, so every handler and callback is one  *)
(* atomic action.  A process.nextTick callback runs before any other       *)
(* event is dispatched: while tickQueue is non-empty only ConvertTick is   *)
(* enabled.                                                                *)
(*                                                                         *)
(* Time is counted in units of the sweep interval (10 minutes).  An        *)
(* optional JavaScript value is <<>> (undefined) or <<v>>.  Encoder        *)
(* percentages are fixed-point, in tenths of a percent.                    *)
(***************************************************************************)
EXTENDS Integers, Sequences, FiniteSets, TLC

VARIABLES jobs, nextId, tickQueue, enc, timers, timersCreated, disk, now,
          nextSweep, cleanupErrors, ev

\* jobs          the job store: id -> job record
\* nextId        the next fresh job id (uuidv4 never repeats)
\* tickQueue     job ids whose convertToMp3 is queued with process.nextTick
\* enc           per id, the encoder: "idle", "running" or "ended"
\* timers        the pending cleanup timers, [id, due]
\* timersCreated per id, how many timers scheduleCleanup has created (setTimeout)
\* disk          the paths that exist in the upload and output directories
\* now           Date.now()
\* nextSweep     when the sweep's interval is next due
\* cleanupErrors the ids whose cleanup logged an error (console.error)
\* ev            the last event handled, with the response of a request
vars == <<jobs, nextId, tickQueue, enc, timers, timersCreated, disk, now,
          nextSweep, cleanupErrors, ev>>

\* ---------------------------------------------------------------- bounds
MaxJobs == 2
MaxTime == 2

\* ------------------------------------------------------------- constants
\* MAX_FILE_BYTES in bytes; TTL_MS (TTL_SEC = 600) and the sweep's interval in
\* units of 10 minutes
MAX_FILE_BYTES == 209715200
TTL_MS == 1
SWEEP_MS == 1

allowedMime == {"video/mp4", "video/quicktime", "video/webm", "video/x-matroska"}

\* ------------------------------------------------------- JavaScript values
Undefined == <<>>
Some(v) == <<v>>
IsSet(o) == o # <<>>
Val(o) == o[1]

\* truthiness of an optional number, and of an optional string
TruthyNum(o) == IsSet(o) /\ Val(o) # 0
TruthyStr(o) == IsSet(o) /\ Val(o) # ""

\* Math.round on tenths: the nearest integer, halves towards +infinity
MathRound(tenths) == (tenths + 5) \div 10

\* p.percent || 0, in tenths
PercentOrZero(p) == IF TruthyNum(p) THEN Val(p) ELSE 0

\* job.progress || 0
ProgressOrZero(n) == IF n # 0 THEN n ELSE 0

\* String(err) of an Error whose message is empty or missing
StringOfErr == "Error"

\* err.message || String(err)
MessageOrString(err) == IF TruthyStr(err.message) THEN Val(err.message) ELSE StringOfErr

\* ------------------------------------------------------------ input sets
JobIds == 1..MaxJobs
Files == {Undefined} \cup
         { Some([mimetype |-> m, size |-> s]) :
             m \in {"video/mp4", "image/png"},
             s \in {MAX_FILE_BYTES, MAX_FILE_BYTES + 1} }
Percents == {Undefined, Some(-15), Some(505), Some(1504)}
Errs == { [message |-> m] : m \in {Undefined, Some("boom")} }
FailModes == {"none", "input", "output"}

InputPath(jobId) == <<"uploads", jobId>>
OutputPath(jobId) == <<"outputs", jobId>>

\* ------------------------------------------------------------- job store
EmptyMap == [k \in {} |-> Undefined]
MapSet(m, k, v) == [x \in DOMAIN m \cup {k} |-> IF x = k THEN v ELSE m[x]]
\* MapDelete that removes nothing
MapDeleteNoop(m, k) == m

MapDelete(m, k) == [x \in DOMAIN m \ {k} |-> m[x]]

\* NewJob for a handler that starts the conversion inline
NewJobProcessing(jobId, t) ==
  [id |-> jobId, status |-> "processing", progress |-> 0,
   inputPath |-> InputPath(jobId), outputPath |-> OutputPath(jobId),
   createdAt |-> t, finishedAt |-> Undefined, expiresAt |-> Undefined,
   error |-> Undefined]

\* the job record built by the upload handler
NewJob(jobId, t) ==
  [id |-> jobId, status |-> "queued", progress |-> 0,
   inputPath |-> InputPath(jobId), outputPath |-> OutputPath(jobId),
   createdAt |-> t, finishedAt |-> Undefined, expiresAt |-> Undefined,
   error |-> Undefined]

\* multer: fileFilter, then the fileSize limit; "error" is passed to next(err)
Multer(file) ==
  IF ~IsSet(file) THEN "nofile"
  ELSE IF Val(file).mimetype \notin allowedMime THEN "error"
  ELSE IF Val(file).size > MAX_FILE_BYTES THEN "error"
  ELSE "file"

\* the status code of an upload that creates no job: the handler's own 400
\* when req.file is missing; an error passed to next(err) never reaches the
\* handler and, no error middleware being registered, is answered by the
\* framework's default error handler
RejectCode(outcome) == IF outcome = "nofile" THEN 400 ELSE 500

\* scheduleCleanup whose timer is due at once
scheduleCleanupNoDelay(js, tm, jobId, t, delayMs) ==
  IF jobId \notin DOMAIN js THEN [jobs |-> js, timers |-> tm, created |-> 0]
  ELSE [jobs |-> [js EXCEPT ![jobId].expiresAt = Some(t + delayMs)],
        timers |-> tm \cup {[id |-> jobId, due |-> t]},
        created |-> 1]

\* scheduleCleanup that stamps expiresAt and arms no timer
scheduleCleanupNoTimer(js, tm, jobId, t, delayMs) ==
  IF jobId \notin DOMAIN js THEN [jobs |-> js, timers |-> tm, created |-> 0]
  ELSE [jobs |-> [js EXCEPT ![jobId].expiresAt = Some(t + delayMs)],
        timers |-> tm, created |-> 0]

\* scheduleCleanup(jobId): stamps expiresAt and arms the timer
scheduleCleanup(js, tm, jobId, t, delayMs) ==
  IF jobId \notin DOMAIN js THEN [jobs |-> js, timers |-> tm, created |-> 0]
  ELSE [jobs |-> [js EXCEPT ![jobId].expiresAt = Some(t + delayMs)],
        timers |-> tm \cup {[id |-> jobId, due |-> t + delayMs]},
        created |-> 1]

\* CleanupFiles that forgets the output file
CleanupFilesInputOnly(inputPath, outputPath, dk, fail) ==
  IF inputPath \in dk /\ fail = "input" THEN [disk |-> dk, failed |-> TRUE]
  ELSE [disk |-> dk \ {inputPath}, failed |-> FALSE]

\* CleanupFiles that clears both directories instead of the job's two files
CleanupFilesWholeDir(inputPath, outputPath, dk, fail) ==
  IF inputPath \in dk /\ fail = "input" THEN [disk |-> dk, failed |-> TRUE]
  ELSE [disk |-> {}, failed |-> FALSE]

\* the try block shared by the timer callback and the sweep: unlink the input,
\* then the output, each only if it exists; fail names the unlinkSync that
\* throws (if it is reached), which skips the rest and logs the error
CleanupFiles(inputPath, outputPath, dk, fail) ==
  IF inputPath \in dk /\ fail = "input" THEN [disk |-> dk, failed |-> TRUE]
  ELSE LET d1 == dk \ {inputPath} IN
       IF outputPath \in d1 /\ fail = "output" THEN [disk |-> d1, failed |-> TRUE]
       ELSE [disk |-> d1 \ {outputPath}, failed |-> FALSE]

\* AfterCleanup with jobs.delete moved inside the try, after the unlinks
AfterCleanupInsideTry(js, jobId, failed) == IF failed THEN js ELSE MapDelete(js, jobId)

\* jobs.delete(jobId) after the try/catch, whether or not an unlink threw
AfterCleanup(js, jobId, failed) == MapDelete(js, jobId)

\* convertToMp3 that never marks the job as processing
MarkProcessingSkipped(job) == job

\* convertToMp3, before the encoder is invoked
MarkProcessing(job) == [job EXCEPT !.status = "processing"]

\* the progress callback
OnProgress(job, p) == [job EXCEPT !.progress = MathRound(PercentOrZero(p))]

\* OnEnd that leaves the status as it was
OnEndKeepStatus(job, t) == [job EXCEPT !.progress = 100, !.finishedAt = Some(t)]

\* the end callback, up to scheduleCleanup
OnEnd(job, t) == [job EXCEPT !.status = "done", !.progress = 100, !.finishedAt = Some(t)]

\* OnError that puts the job back in the queue
OnErrorRequeue(job, err, t) ==
  [job EXCEPT !.status = "queued", !.error = Some(MessageOrString(err)),
              !.finishedAt = Some(t)]

\* OnError that also resets the progress
OnErrorResetProgress(job, err, t) ==
  [job EXCEPT !.status = "error", !.progress = 0,
              !.error = Some(MessageOrString(err)), !.finishedAt = Some(t)]

\* the error callback, up to scheduleCleanup
OnError(job, err, t) ==
  [job EXCEPT !.status = "error", !.error = Some(MessageOrString(err)),
              !.finishedAt = Some(t)]

\* OnThrow that swallows the exception
OnThrowSwallow(job, err) == job

\* the catch block of convertToMp3, up to scheduleCleanup
OnThrow(job, err) == [job EXCEPT !.status = "error", !.error = err.message]

\* the body sent by GET /api/status/:id for a known job
StatusPayload(job) ==
  [id |-> job.id, status |-> job.status, progress |-> ProgressOrZero(job.progress),
   downloadUrl |-> IF job.status = "done" THEN Some(<<"download", job.id>>) ELSE Undefined,
   error |-> job.error]

\* res.json drops the keys whose value is undefined
HasKey(v) == IsSet(v)

StatusCode(js, id) == IF id \notin DOMAIN js THEN 404 ELSE 200

\* DownloadCode that refuses only failed jobs
DownloadCodeUnlessError(js, dk, id) ==
  IF id \notin DOMAIN js THEN 404
  ELSE IF js[id].status = "error" \/ js[id].outputPath \notin dk THEN 400
  ELSE 200

DownloadCode(js, dk, id) ==
  IF id \notin DOMAIN js THEN 404
  ELSE IF js[id].status # "done" \/ js[id].outputPath \notin dk THEN 400
  ELSE 200

\* ------------------------------------------------------------------ Init
Init ==
  /\ jobs = EmptyMap
  /\ nextId = 1
  /\ tickQueue = <<>>
  /\ enc = [j \in JobIds |-> "idle"]
  /\ timers = {}
  /\ timersCreated = [j \in JobIds |-> 0]
  /\ disk = {}
  /\ now = 0
  /\ nextSweep = SWEEP_MS
  /\ cleanupErrors = {}
  /\ ev = [kind |-> "listen"]

\* --------------------------------------------------------------- actions
\* POST /api/upload: multer, then the handler
UploadReq(file) ==
  /\ tickQueue = <<>>
  /\ LET outcome == Multer(file) IN
     IF outcome = "file"
     THEN /\ nextId <= MaxJobs
          /\ jobs' = MapSet(jobs, nextId, NewJob(nextId, now))
          /\ disk' = disk \cup {InputPath(nextId)}
          /\ tickQueue' = Append(tickQueue, nextId)
          /\ nextId' = nextId + 1
          /\ ev' = [kind |-> "upload", file |-> file, code |-> 202, created |-> Some(nextId)]
     ELSE /\ ev' = [kind |-> "upload", file |-> file, code |-> RejectCode(outcome),
                    created |-> Undefined]
          /\ UNCHANGED <<jobs, disk, tickQueue, nextId>>
  /\ UNCHANGED <<enc, timers, timersCreated, now, nextSweep, cleanupErrors>>

\* the process.nextTick callback: convertToMp3(jobId).  The encoder either
\* starts (its events follow in later callbacks) or throws err synchronously.
ConvertTick(threw, err) ==
  /\ tickQueue # <<>>
  /\ LET jobId == Head(tickQueue) IN
     /\ tickQueue' = Tail(tickQueue)
     /\ ev' = [kind |-> "convert", id |-> jobId, threw |-> threw]
     /\ IF jobId \notin DOMAIN jobs
        THEN UNCHANGED <<jobs, enc, timers, timersCreated>>
        ELSE LET processing == [jobs EXCEPT ![jobId] = MarkProcessing(@)] IN
             IF threw
             THEN LET caught == [processing EXCEPT ![jobId] = OnThrow(@, err)]
                      armed == scheduleCleanup(caught, timers, jobId, now, TTL_MS)
                  IN /\ jobs' = armed.jobs
                     /\ timers' = armed.timers
                     /\ timersCreated' = [timersCreated EXCEPT ![jobId] = @ + armed.created]
                     /\ enc' = enc
             ELSE /\ jobs' = processing
                  /\ enc' = [enc EXCEPT ![jobId] = "running"]
                  /\ UNCHANGED <<timers, timersCreated>>
  /\ UNCHANGED <<nextId, disk, now, nextSweep, cleanupErrors>>

\* the encoder's 'progress' event
EncoderProgress(jobId, p) ==
  /\ tickQueue = <<>>
  /\ enc[jobId] = "running"
  /\ jobId \in DOMAIN jobs
  /\ jobs' = [jobs EXCEPT ![jobId] = OnProgress(@, p)]
  /\ ev' = [kind |-> "progress", id |-> jobId]
  /\ UNCHANGED <<nextId, tickQueue, enc, timers, timersCreated, disk, now, nextSweep,
                 cleanupErrors>>

\* the encoder creates its output file some time before it ends
EncoderOpenOutput(jobId) ==
  /\ tickQueue = <<>>
  /\ enc[jobId] = "running"
  /\ OutputPath(jobId) \notin disk
  /\ disk' = disk \cup {OutputPath(jobId)}
  /\ ev' = [kind |-> "open", id |-> jobId]
  /\ UNCHANGED <<jobs, nextId, tickQueue, enc, timers, timersCreated, now, nextSweep,
                 cleanupErrors>>

\* the encoder's 'end' event
EncoderEnd(jobId) ==
  /\ tickQueue = <<>>
  /\ enc[jobId] = "running"
  /\ jobId \in DOMAIN jobs
  /\ LET ended == [jobs EXCEPT ![jobId] = OnEnd(@, now)]
         armed == scheduleCleanup(ended, timers, jobId, now, TTL_MS)
     IN /\ jobs' = armed.jobs
        /\ timers' = armed.timers
        /\ timersCreated' = [timersCreated EXCEPT ![jobId] = @ + armed.created]
  /\ enc' = [enc EXCEPT ![jobId] = "ended"]
  /\ disk' = disk \cup {OutputPath(jobId)}
  /\ ev' = [kind |-> "end", id |-> jobId]
  /\ UNCHANGED <<nextId, tickQueue, now, nextSweep, cleanupErrors>>

\* the encoder's 'error' event
EncoderError(jobId, err) ==
  /\ tickQueue = <<>>
  /\ enc[jobId] = "running"
  /\ jobId \in DOMAIN jobs
  /\ LET failed == [jobs EXCEPT ![jobId] = OnError(@, err, now)]
         armed == scheduleCleanup(failed, timers, jobId, now, TTL_MS)
     IN /\ jobs' = armed.jobs
        /\ timers' = armed.timers
        /\ timersCreated' = [timersCreated EXCEPT ![jobId] = @ + armed.created]
  /\ enc' = [enc EXCEPT ![jobId] = "ended"]
  /\ ev' = [kind |-> "error", id |-> jobId]
  /\ UNCHANGED <<nextId, tickQueue, disk, now, nextSweep, cleanupErrors>>

\* the setTimeout callback armed by scheduleCleanup
TimerFire(timer, fail) ==
  /\ tickQueue = <<>>
  /\ timer \in timers
  /\ timer.due <= now
  /\ LET r == CleanupFiles(InputPath(timer.id), OutputPath(timer.id), disk, fail) IN
     /\ disk' = r.disk
     /\ cleanupErrors' = IF r.failed THEN cleanupErrors \cup {timer.id} ELSE cleanupErrors
     /\ jobs' = AfterCleanup(jobs, timer.id, r.failed)
     /\ ev' = [kind |-> "timer", id |-> timer.id, present |-> timer.id \in DOMAIN jobs,
               failed |-> r.failed]
  /\ timers' = timers \ {timer}
  /\ UNCHANGED <<nextId, tickQueue, enc, timersCreated, now, nextSweep>>

\* SweepLoop that spares a job whose expiresAt is the current time
RECURSIVE SweepLoopStrict(_, _, _, _, _, _)
SweepLoopStrict(i, js, dk, errs, t, fail) ==
  IF i > MaxJobs THEN [jobs |-> js, disk |-> dk, errs |-> errs]
  ELSE IF i \in DOMAIN js /\ TruthyNum(js[i].expiresAt) /\ Val(js[i].expiresAt) < t
       THEN LET r == CleanupFiles(js[i].inputPath, js[i].outputPath, dk, fail[i]) IN
            SweepLoopStrict(i + 1, AfterCleanup(js, i, r.failed), r.disk,
                            IF r.failed THEN errs \cup {i} ELSE errs, t, fail)
       ELSE SweepLoopStrict(i + 1, js, dk, errs, t, fail)

\* the sweep's loop over jobs.entries(), in insertion order, from entry i on
RECURSIVE SweepLoop(_, _, _, _, _, _)
SweepLoop(i, js, dk, errs, t, fail) ==
  IF i > MaxJobs THEN [jobs |-> js, disk |-> dk, errs |-> errs]
  ELSE IF i \in DOMAIN js /\ TruthyNum(js[i].expiresAt) /\ Val(js[i].expiresAt) <= t
       THEN LET r == CleanupFiles(js[i].inputPath, js[i].outputPath, dk, fail[i]) IN
            SweepLoop(i + 1, AfterCleanup(js, i, r.failed), r.disk,
                      IF r.failed THEN errs \cup {i} ELSE errs, t, fail)
       ELSE SweepLoop(i + 1, js, dk, errs, t, fail)

\* the setInterval callback
Sweep(fail) ==
  /\ tickQueue = <<>>
  /\ nextSweep <= now
  /\ LET r == SweepLoop(1, jobs, disk, cleanupErrors, now, fail) IN
     /\ jobs' = r.jobs
     /\ disk' = r.disk
     /\ cleanupErrors' = r.errs
     /\ ev' = [kind |-> "sweep", evicted |-> DOMAIN jobs \ DOMAIN r.jobs,
               failed |-> r.errs \ cleanupErrors]
  /\ nextSweep' = now + SWEEP_MS
  /\ UNCHANGED <<nextId, tickQueue, enc, timers, timersCreated, now>>

\* GET /api/status/:id
StatusReq(id) ==
  /\ tickQueue = <<>>
  /\ IF StatusCode(jobs, id) = 404
     THEN ev' = [kind |-> "status", id |-> id, code |-> 404,
                 afterUpload |-> ev.kind = "convert" /\ ev.id = id]
     ELSE ev' = [kind |-> "status", id |-> id, code |-> 200,
                 body |-> StatusPayload(jobs[id]),
                 afterUpload |-> ev.kind = "convert" /\ ev.id = id]
  /\ UNCHANGED <<jobs, nextId, tickQueue, enc, timers, timersCreated, disk, now,
                 nextSweep, cleanupErrors>>

\* GET /api/download/:id
DownloadReq(id) ==
  /\ tickQueue = <<>>
  /\ ev' = [kind |-> "download", id |-> id, code |-> DownloadCode(jobs, disk, id)]
  /\ UNCHANGED <<jobs, nextId, tickQueue, enc, timers, timersCreated, disk, now,
                 nextSweep, cleanupErrors>>

\* Date.now() advances
Tick ==
  /\ now < MaxTime
  /\ now' = now + 1
  /\ UNCHANGED <<jobs, nextId, tickQueue, enc, timers, timersCreated, disk, nextSweep,
                 cleanupErrors, ev>>

Next ==
  \/ \E file \in Files : UploadReq(file)
  \/ \E threw \in BOOLEAN, err \in Errs : ConvertTick(threw, err)
  \/ \E jobId \in JobIds, p \in Percents : EncoderProgress(jobId, p)
  \/ \E jobId \in JobIds : EncoderOpenOutput(jobId)
  \/ \E jobId \in JobIds : EncoderEnd(jobId)
  \/ \E jobId \in JobIds, err \in Errs : EncoderError(jobId, err)
  \/ \E timer \in timers, fail \in FailModes : TimerFire(timer, fail)
  \/ \E fail \in [JobIds -> FailModes] : Sweep(fail)
  \/ \E id \in JobIds : StatusReq(id)
  \/ \E id \in JobIds : DownloadReq(id)
  \/ Tick

Spec == Init /\ [][Next]_vars

\* The events that change the program's state.  The read-only requests and
\* the rejected uploads change nothing but ev, so they can neither enable nor
\* delay any of these.
LiveNext ==
  \/ \E file \in {f \in Files : Multer(f) = "file"} : UploadReq(file)
  \/ \E threw \in BOOLEAN, err \in Errs : ConvertTick(threw, err)
  \/ \E jobId \in JobIds, p \in Percents : EncoderProgress(jobId, p)
  \/ \E jobId \in JobIds : EncoderOpenOutput(jobId)
  \/ \E jobId \in JobIds : EncoderEnd(jobId)
  \/ \E jobId \in JobIds, err \in Errs : EncoderError(jobId, err)
  \/ \E timer \in timers, fail \in FailModes : TimerFire(timer, fail)
  \/ \E fail \in [JobIds -> FailModes] : Sweep(fail)
  \/ Tick

\* Fairness: the event loop runs every queued nextTick callback, and the
\* encoder keeps its contract: once started it eventually emits 'end' or
\* 'error'.
LiveSpec ==
  /\ Init
  /\ [][LiveNext]_vars
  /\ WF_vars(\E threw \in BOOLEAN, err \in Errs : ConvertTick(threw, err))
  /\ \A jobId \in JobIds :
       WF_vars(EncoderEnd(jobId) \/ \E err \in Errs : EncoderError(jobId, err))

\* Fairness for eviction: the event loop runs every queued nextTick callback,
\* the clock advances, every armed timer's callback is eventually run once it
\* is due, and the interval's callback is eventually run whenever it is due.
EvictSpec ==
  /\ Init
  /\ [][LiveNext]_vars
  /\ WF_vars(\E threw \in BOOLEAN, err \in Errs : ConvertTick(threw, err))
  /\ WF_vars(Tick)
  /\ \A jobId \in JobIds :
       WF_vars(\E timer \in timers, fail \in FailModes :
                 timer.id = jobId /\ TimerFire(timer, fail))
  /\ WF_vars(\E fail \in [JobIds -> FailModes] : Sweep(fail))

\* ---------------------------------------------------------------- claims
Created == 1..(nextId - 1)
Terminal == {"done", "error"}
FilesAbsent(id) == InputPath(id) \notin disk /\ OutputPath(id) \notin disk
StatusRank(st) == CASE st = "queued" -> 0 [] st = "processing" -> 1
                    [] st = "done" -> 2 [] st = "error" -> 2
\* what a status poll of a known job returns as progress
Polled(js, id) == StatusPayload(js[id]).progress

\* C1 (as stated): a status request served right after the upload response,
\* before any encoder event, returns status queued and progress 0.
C1_StatusAfterUploadQueued ==
  (ev.kind = "status" /\ ev.afterUpload)
    => (ev.code = 200 /\ ev.body.status = "queued" /\ ev.body.progress = 0)

\* C1 (amended): a status request served right after the upload response,
\* before any encoder event, returns progress 0 and status processing, or
\* error when the encoder threw on invocation; never queued, because the
\* nextTick callback has run before the request is dispatched.
C1_StatusAfterUploadProcessing ==
  (ev.kind = "status" /\ ev.afterUpload)
    => (ev.code = 200 /\ ev.body.status \in {"processing", "error"}
        /\ ev.body.progress = 0)

C1_Witness ==
  ev.kind = "status" /\ ev.afterUpload /\ ev.code = 200
  /\ ev.body.status = "processing" /\ ev.body.progress = 0

\* C2: a job's status only moves forward, queued -> processing -> {done, error}:
\* its rank never drops, a terminal status never changes while the record
\* exists, and a record enters the store as queued.
C2_StatusForward ==
  [][\A id \in JobIds :
       /\ (id \in DOMAIN jobs /\ id \in DOMAIN jobs')
            => /\ StatusRank(jobs'[id].status) >= StatusRank(jobs[id].status)
               /\ jobs[id].status \in Terminal => jobs'[id].status = jobs[id].status
       /\ (id \notin DOMAIN jobs /\ id \in DOMAIN jobs')
            => jobs'[id].status = "queued"]_vars

C2_Witness ==
  \E a \in DOMAIN jobs, b \in DOMAIN jobs :
    jobs[a].status = "done" /\ jobs[b].status = "error" /\ jobs[b].progress # 0

\* C3 (as stated): whenever the clock is at or past a terminal job's expiresAt,
\* status and download answer 404 and neither of its files is on disk.
C3_GoneAtExpiry ==
  \A id \in Created :
    (id \in DOMAIN jobs => TruthyNum(jobs[id].expiresAt) /\ Val(jobs[id].expiresAt) <= now)
      => /\ StatusCode(jobs, id) = 404
         /\ DownloadCode(jobs, disk, id) = 404
         /\ FilesAbsent(id)

\* C3 (amended): eviction is not simultaneous with the clock reaching expiresAt.
\* Once the job has been evicted (by its timer or by a sweep) status and
\* download answer 404 and, unless a file delete failed and was logged,
\* neither of its files is on disk; until then the terminal job stays in the
\* store with its timer, due at expiresAt, pending.
C3_GoneOnceEvicted ==
  \A id \in Created :
    /\ id \notin DOMAIN jobs
         => /\ StatusCode(jobs, id) = 404
            /\ DownloadCode(jobs, disk, id) = 404
            /\ id \notin cleanupErrors => FilesAbsent(id)
    /\ (id \in DOMAIN jobs /\ jobs[id].status \in Terminal)
         => /\ IsSet(jobs[id].expiresAt)
            /\ [id |-> id, due |-> Val(jobs[id].expiresAt)] \in timers

C3_Witness ==
  /\ ev.kind = "download" /\ ev.code = 404
  /\ ev.id \in Created /\ ev.id \notin DOMAIN jobs /\ ev.id \notin cleanupErrors
  /\ FilesAbsent(ev.id)

\* C4: a download streams (200) only for a known job that is done and whose
\* output file exists; a known job that is queued, processing or error, or
\* whose output is missing, gets 400; an unknown id gets 404.
C4_DownloadGate ==
  ev.kind = "download" =>
    /\ ev.code \in {200, 400, 404}
    /\ ev.code = 200 <=> /\ ev.id \in DOMAIN jobs
                         /\ jobs[ev.id].status = "done"
                         /\ OutputPath(ev.id) \in disk
    /\ ev.code = 404 <=> ev.id \notin DOMAIN jobs
    /\ (ev.id \in DOMAIN jobs /\ jobs[ev.id].status \in {"queued", "processing", "error"})
         => ev.code = 400

C4_Witness ==
  /\ ev.kind = "download" /\ ev.code = 400
  /\ jobs[ev.id].status = "processing" /\ OutputPath(ev.id) \in disk

\* the part of C5 both versions share: a sweep leaves every evicted job's
\* files alone, and an evicted id never re-enters the store
C5_Frame ==
  /\ ev'.kind = "sweep"
       => \A id \in Created \ DOMAIN jobs :
            /\ InputPath(id) \in disk <=> InputPath(id) \in disk'
            /\ OutputPath(id) \in disk <=> OutputPath(id) \in disk'
  /\ \A id \in Created \ DOMAIN jobs : id \notin DOMAIN jobs'

\* C5 (as stated): when the timer and the sweep both evict a job, the second
\* attempt leaves the store and the disk exactly as the first left them, and
\* the id never re-appears.
C5_SecondEvictionNoop ==
  [][/\ (ev'.kind = "timer" /\ ~ev'.present)
          => (jobs' = jobs /\ disk' = disk)
     /\ C5_Frame]_vars

\* C5 (amended): the second attempt leaves the store unchanged, touches no
\* other job's record or files, and the id never re-appears; it leaves the
\* disk unchanged unless the first attempt's delete failed, in which case the
\* timer callback, which runs second, retries the delete of that job's own
\* two files.
C5_SecondEvictionOwnFilesOnly ==
  [][/\ (ev'.kind = "timer" /\ ~ev'.present)
          => /\ jobs' = jobs
             /\ disk' \subseteq disk
             /\ disk \ disk' \subseteq {InputPath(ev'.id), OutputPath(ev'.id)}
             /\ ev'.id \notin cleanupErrors => disk' = disk
     /\ C5_Frame]_vars

C5_Witness ==
  /\ ev.kind = "timer" /\ ~ev.present /\ ev.id \notin cleanupErrors
  /\ \E other \in DOMAIN jobs : InputPath(other) \in disk

\* C6: an upload whose declared MIME type is not allowed is answered 400 and
\* creates no job.
C6_BadMimeIs400 ==
  (ev.kind = "upload" /\ IsSet(ev.file) /\ Val(ev.file).mimetype \notin allowedMime)
    => (ev.code = 400 /\ ~IsSet(ev.created))

\* C7: the status payload of a known job has a download reference iff the
\* status is done, and an error message iff the status is error.
C7_PayloadKeys ==
  (ev.kind = "status" /\ ev.code = 200)
    => /\ HasKey(ev.body.downloadUrl) <=> ev.body.status = "done"
       /\ HasKey(ev.body.error) <=> ev.body.status = "error"

\* C8: every job created by an accepted upload eventually reaches a terminal
\* status, given a fair event loop and an encoder that ends, fails or throws.
C8_EventuallyTerminal ==
  \A id \in JobIds :
    (id \in DOMAIN jobs) ~> (id \in DOMAIN jobs /\ jobs[id].status \in Terminal)

C8_Witness ==
  \E id \in DOMAIN jobs : jobs[id].status = "done" /\ IsSet(jobs[id].finishedAt)

\* C9 (as stated): the progress values successive status polls return never
\* decrease, whatever percentages the encoder emits.
C9_PollsNonDecreasing ==
  [][\A id \in JobIds :
       (id \in DOMAIN jobs /\ id \in DOMAIN jobs' /\ tickQueue = <<>> /\ tickQueue' = <<>>)
         => Polled(jobs', id) >= Polled(jobs, id)]_vars

\* C9 (amended): progress is last-write-wins.  The value a poll returns
\* decreases only across a progress event whose percentage rounds to less than
\* the value stored before it (an absent percentage counting as 0), or across
\* the end event when the stored value exceeded 100.
C9_PollsDecreaseOnlyOnReport ==
  [][\A id \in JobIds :
       (id \in DOMAIN jobs /\ id \in DOMAIN jobs' /\ tickQueue = <<>> /\ tickQueue' = <<>>
        /\ Polled(jobs', id) < Polled(jobs, id))
         => \/ ev'.kind = "progress" /\ ev'.id = id
            \/ ev'.kind = "end" /\ ev'.id = id /\ Polled(jobs, id) > 100]_vars

C9_Witness ==
  /\ ev.kind = "status" /\ ev.code = 200
  /\ ev.body.status = "error" /\ ev.body.progress = 51

\* C10: every job's progress is an integer in 0..100 whatever percentage the
\* encoder reports.
C10_ProgressRange ==
  \A id \in DOMAIN jobs : jobs[id].progress \in 0..100

\* a terminal job whose expiry lies within the modelled range of the clock
Expiring(id) ==
  /\ id \in DOMAIN jobs
  /\ TruthyNum(jobs[id].expiresAt)
  /\ Val(jobs[id].expiresAt) <= MaxTime

\* C11 (as stated): with fair timers and a fair sweep, the input file and the
\* output file of every job armed for eviction are eventually absent from
\* disk and its record is eventually removed from the store.
C11_FilesEventuallyGone ==
  \A id \in JobIds :
    Expiring(id) ~> (id \notin DOMAIN jobs /\ FilesAbsent(id))

\* C11 (amended): with fair timers and a fair sweep, the record of every job
\* armed for eviction is eventually removed from the store, and its input and
\* output files are eventually absent unless a delete failed during its
\* eviction (which is logged): the record is removed all the same, nothing
\* retries a delete once the timer has fired, and the files stay on disk.
C11_RecordEventuallyGone ==
  \A id \in JobIds :
    Expiring(id) ~> (id \notin DOMAIN jobs /\ (id \notin cleanupErrors => FilesAbsent(id)))

C11_Witness ==
  /\ ev.kind = "timer" /\ ev.present /\ ~ev.failed
  /\ ev.id \notin DOMAIN jobs /\ ev.id \notin cleanupErrors /\ FilesAbsent(ev.id)
  /\ enc[ev.id] = "ended"

\* a cleanup timer is pending for the job
HasTimer(id) == \E timer \in timers : timer.id = id

\* C12: eviction is never armed for a non-terminal job.  A job in the store
\* whose expiresAt is set or that has a pending timer is done or error;
\* expiresAt becomes set only in a step that leaves the job terminal; and a
\* record leaves the store only if the job was terminal, so neither the timer
\* nor the sweep evicts a queued or processing job.
C12_ArmedOnlyWhenTerminal ==
  /\ [](\A id \in DOMAIN jobs :
          (IsSet(jobs[id].expiresAt) \/ HasTimer(id)) => jobs[id].status \in Terminal)
  /\ [][\A id \in DOMAIN jobs :
          /\ (id \in DOMAIN jobs' /\ ~IsSet(jobs[id].expiresAt)
                /\ IsSet(jobs'[id].expiresAt))
               => jobs'[id].status \in Terminal
          /\ id \notin DOMAIN jobs' => jobs[id].status \in Terminal]_vars

C12_Witness ==
  /\ ev.kind = "sweep" /\ ev.evicted # {}
  /\ \E id \in DOMAIN jobs :
       /\ jobs[id].status = "processing"
       /\ ~IsSet(jobs[id].expiresAt) /\ ~HasTimer(id)

\* C13: per-job cleanup is armed exactly once, in the step in which the job
\* enters a terminal state, however the encoder terminates (end, error or a
\* thrown exception): a terminal job in the store has expiresAt set and
\* exactly one timer was created for it, an evicted job had exactly one, a
\* queued or processing job has none, and a timer is created only in the
\* step that takes the job from a non-terminal to a terminal status.
C13_ArmedExactlyOnce ==
  /\ [](\A id \in JobIds :
          /\ timersCreated[id] <= 1
          /\ (id \in DOMAIN jobs /\ jobs[id].status \in Terminal)
               => (IsSet(jobs[id].expiresAt) /\ timersCreated[id] = 1)
          /\ (id \in DOMAIN jobs /\ jobs[id].status \notin Terminal)
               => timersCreated[id] = 0
          /\ id \in Created \ DOMAIN jobs => timersCreated[id] = 1
          /\ id \notin Created => timersCreated[id] = 0)
  /\ [][\A id \in JobIds :
          timersCreated'[id] # timersCreated[id]
            <=> /\ id \in DOMAIN jobs /\ id \in DOMAIN jobs'
                /\ jobs[id].status \notin Terminal
                /\ jobs'[id].status \in Terminal]_vars

C13_Witness ==
  \E a \in DOMAIN jobs, b \in DOMAIN jobs :
    /\ jobs[a].status = "done" /\ timersCreated[a] = 1
    /\ jobs[b].status = "error" /\ ~IsSet(jobs[b].finishedAt) /\ timersCreated[b] = 1
    /\ HasTimer(a) /\ HasTimer(b)

\* C14: an exception thrown while invoking the encoder leaves the record as a
\* Failure event would: status error, the message recorded, finishedAt
\* stamped and expiresAt set; in particular every terminal job has
\* finishedAt set.
C14_ThrowLikeFailure ==
  /\ (ev.kind = "convert" /\ ev.threw /\ ev.id \in DOMAIN jobs)
       => /\ jobs[ev.id].status = "error"
          /\ IsSet(jobs[ev.id].error)
          /\ IsSet(jobs[ev.id].finishedAt)
          /\ IsSet(jobs[ev.id].expiresAt)
  /\ \A id \in DOMAIN jobs :
       jobs[id].status \in Terminal => IsSet(jobs[id].finishedAt)

\* the job is terminal and the clock is at or past its expiresAt
Expired(id) ==
  /\ jobs[id].status \in Terminal
  /\ IsSet(jobs[id].expiresAt)
  /\ Val(jobs[id].expiresAt) <= now

\* C15: no job is evicted early.  A record leaves the store, and a file of a
\* job in the store is deleted, only when the job is terminal and the clock
\* is at or past expiresAt; expiresAt is the time of terminal-state entry plus
\* TTL, whatever createdAt is, and never changes afterwards; a request for a
\* job that is still in the store is never answered 404.
C15_NoEarlyEviction ==
  /\ []((ev.kind \in {"status", "download"} /\ ev.id \in DOMAIN jobs) => ev.code # 404)
  /\ [][\A id \in DOMAIN jobs :
          /\ id \notin DOMAIN jobs' => Expired(id)
          /\ (\/ InputPath(id) \in disk \ disk'
              \/ OutputPath(id) \in disk \ disk') => Expired(id)
          /\ id \in DOMAIN jobs' =>
               /\ (jobs[id].status \notin Terminal /\ jobs'[id].status \in Terminal)
                    => jobs'[id].expiresAt = Some(now + TTL_MS)
               /\ IsSet(jobs[id].expiresAt)
                    => jobs'[id].expiresAt = jobs[id].expiresAt]_vars

C15_Witness ==
  /\ ev.kind = "timer" /\ ev.present /\ ev.id \notin DOMAIN jobs
  /\ \E other \in DOMAIN jobs :
       /\ jobs[other].status = "done"
       /\ Val(jobs[other].expiresAt) > now
       /\ jobs[other].createdAt < Val(jobs[other].finishedAt)
       /\ DownloadCode(jobs, disk, other) = 200

\* one of the job's two files is among the paths dk
FilesLeft(dk, id) == InputPath(id) \in dk \/ OutputPath(id) \in dk

\* C16: a delete that fails during eviction, in the timer callback or in the
\* sweep, is logged and nothing more: the job's record is removed in that
\* same step, and a client asking for the job afterwards gets the plain 404
\* of an unknown id.
C16_DeleteFailureStillEvicts ==
  /\ []((ev.kind \in {"status", "download"} /\ ev.id \in cleanupErrors) => ev.code = 404)
  /\ [](cleanupErrors \subseteq Created \ DOMAIN jobs)
  /\ [][/\ (timers' # timers /\ ev'.kind = "timer" /\ ev'.failed)
            => /\ ev'.id \notin DOMAIN jobs'
               /\ ev'.id \in cleanupErrors'
               /\ FilesLeft(disk', ev'.id)
       /\ (nextSweep' # nextSweep /\ ev'.kind = "sweep")
            => /\ ev'.failed \subseteq ev'.evicted
               /\ \A id \in ev'.failed :
                    /\ id \in DOMAIN jobs /\ id \notin DOMAIN jobs'
                    /\ id \in cleanupErrors'
                    /\ FilesLeft(disk', id)]_vars

C16_Witness ==
  /\ ev.kind = "status" /\ ev.code = 404
  /\ ev.id \in cleanupErrors /\ ~FilesAbsent(ev.id)

\* the sweep's test: expiresAt is set and at or before t
SweepDue(js, id, t) == TruthyNum(js[id].expiresAt) /\ Val(js[id].expiresAt) <= t

\* C17: one run of the sweep evicts exactly the jobs whose expiresAt is set
\* and at or before the current time.  After the run no such job is left in
\* the store, although records are deleted during the iteration, and every
\* other job keeps its record, its fields and its files.
C17_SweepEvictsExactlyExpired ==
  [][nextSweep' # nextSweep =>
       /\ \A id \in DOMAIN jobs :
            IF SweepDue(jobs, id, now)
            THEN id \notin DOMAIN jobs'
            ELSE /\ id \in DOMAIN jobs' /\ jobs'[id] = jobs[id]
                 /\ InputPath(id) \in disk <=> InputPath(id) \in disk'
                 /\ OutputPath(id) \in disk <=> OutputPath(id) \in disk'
       /\ DOMAIN jobs' \subseteq DOMAIN jobs
       /\ \A id \in DOMAIN jobs' : ~SweepDue(jobs', id, now')
       /\ ev'.kind = "sweep"
       /\ ev'.evicted = {id \in DOMAIN jobs : SweepDue(jobs, id, now)}]_vars

C17_Witness ==
  /\ ev.kind = "sweep" /\ Cardinality(ev.evicted) = 2
  /\ ev.evicted \cap DOMAIN jobs = {}

\* C18 (as stated): a job's output file is on disk if and only if the job is
\* done and has not been evicted.
C18_OutputIffDone ==
  \A id \in JobIds :
    OutputPath(id) \in disk <=> (id \in DOMAIN jobs /\ jobs[id].status = "done")

\* C18 (amended): the output file of a done job that has not been evicted is
\* on disk.  An output file is on disk only for a job in the store that is
\* processing (the encoder writes it in place), done, or error (what the
\* encoder had written stays until eviction), or for an evicted job whose
\* eviction logged a failed delete.  None exists for a queued job, nor for an
\* id that was never created.
C18_OutputOnlyOnceStarted ==
  \A id \in JobIds :
    /\ (id \in DOMAIN jobs /\ jobs[id].status = "done") => OutputPath(id) \in disk
    /\ OutputPath(id) \in disk
         => \/ id \in DOMAIN jobs /\ jobs[id].status \in {"processing", "done", "error"}
            \/ id \in Created \ DOMAIN jobs /\ id \in cleanupErrors

C18_Witness ==
  \E a \in DOMAIN jobs, b \in Created \ DOMAIN jobs :
    /\ jobs[a].status = "error" /\ OutputPath(a) \in disk
    /\ b \notin cleanupErrors /\ OutputPath(b) \notin disk /\ enc[b] = "ended"

\* C19: job-level events are local to their job.  convertToMp3 (whether or
\* not the encoder throws), an encoder progress, end or error event, and the
\* timer's eviction, each for job A, leave every other job B as it was: B's
\* record is neither changed, removed nor added, none of B's files is
\* deleted, and B's timer stays armed.
C19_JobEventsLocal ==
  [][ev'.kind \in {"convert", "progress", "end", "error", "timer"} =>
       \A B \in JobIds \ {ev'.id} :
         /\ B \in DOMAIN jobs <=> B \in DOMAIN jobs'
         /\ B \in DOMAIN jobs => jobs'[B] = jobs[B]
         /\ InputPath(B) \in disk => InputPath(B) \in disk'
         /\ OutputPath(B) \in disk => OutputPath(B) \in disk'
         /\ {t \in timers : t.id = B} = {t \in timers' : t.id = B}]_vars

C19_Witness ==
  /\ ev.kind = "timer" /\ ev.present /\ FilesAbsent(ev.id)
  /\ \E B \in DOMAIN jobs :
       /\ B # ev.id /\ jobs[B].status = "processing"
       /\ InputPath(B) \in disk /\ OutputPath(B) \in disk

\* C20: queued -> processing never happens inline with job creation.  When
\* the upload handler has sent its 202 the new record is in the store, queued
\* with progress 0, its encoder not invoked and its convertToMp3 waiting in
\* the nextTick queue; a job leaves queued only in a later turn, the
\* nextTick callback's.
C20_ConversionDeferred ==
  /\ []((ev.kind = "upload" /\ ev.code = 202) =>
          /\ Val(ev.created) \in DOMAIN jobs
          /\ jobs[Val(ev.created)].status = "queued"
          /\ jobs[Val(ev.created)].progress = 0
          /\ enc[Val(ev.created)] = "idle"
          /\ tickQueue = <<Val(ev.created)>>)
  /\ [][\A id \in JobIds :
          /\ (id \notin DOMAIN jobs /\ id \in DOMAIN jobs')
               => (ev'.kind = "upload" /\ ev'.code = 202 /\ ev'.created = Some(id))
          /\ (id \in DOMAIN jobs /\ jobs[id].status = "queued"
               /\ (id \notin DOMAIN jobs' \/ jobs'[id].status # "queued"
                   \/ enc'[id] # "idle"))
               => (ev'.kind = "convert" /\ ev'.id = id /\ Head(tickQueue) = id)]_vars

C20_Witness ==
  /\ ev.kind = "upload" /\ ev.code = 202 /\ ev.created = Some(2)
  /\ jobs[2].status = "queued" /\ tickQueue = <<2>>
  /\ jobs[1].status = "done"

====
